---- MODULE Spec2Model ----
(***************************************************************************)
(* A model of src/interfaces/rtc_data_channel.cc: the DataChannelObserver  *)
(* that caches native events before the RTCDataChannel exists, the         *)
(* RTCDataChannel wrapper (constructor hand-off, teardown, Send, Close,    *)
(* the attribute getters) and the event loop that delivers events to the   *)
(* JavaScript listener.                                                    *)
(*                                                                         *)
(* Two contexts run the code: the native library's signaling thread calls  *)
(* OnStateChange / OnMessage of whichever observer is registered, and the  *)
(* JavaScript main thread runs the constructor, Send, Close, the getters,  *)
(* OnPeerConnectionClosed and the event loop.                              *)
(*                                                                         *)
(* Spec     : every callback and every main-thread handler is one atomic   *)
(*            step; the constructor is split at its thread-safe queue      *)
(*            operations (RegisterObserver, each Dequeue/Dispatch of       *)
(*            requeue, the tail), where signaling-thread callbacks can     *)
(*            run in between.                                              *)
(* SpecRace : a constructed channel whose handlers are split at every      *)
(*            access of _jingleDataChannel, so that the unsynchronised     *)
(*            accesses of the two contexts interleave.                     *)
(***************************************************************************)
EXTENDS Integers, Sequences, FiniteSets, TLC

\* ----------------------------------------------------------------- bounds
\* Messages the native channel delivers during one run.
MaxMsgs == 1
\* Capacity of the native send buffer (buffered_amount never exceeds it).
MaxBuf == 2
\* Calls of close() made by the application during one run.
MaxClose == 2

VARIABLES
  nstate,      \* webrtc::DataChannelInterface::state() of the native channel
  nobserver,   \* the observer registered with the native channel
  nattrs,      \* what the native channel reports for its attributes
  nseq,        \* number of events the native channel has produced
  nmsgs,       \* number of messages the native channel has produced
  obsQueue,    \* DataChannelObserver's EventQueue
  phase,       \* "observer" | "registering" | "live"
  jingle,      \* RTCDataChannel::_jingleDataChannel != nullptr
  cached,      \* the _cached_* fields
  loopQueue,   \* the channel's event loop queue (Dispatch appends)
  stopped,     \* the event loop was stopped (Stop was called)
  stopCalls,   \* number of calls of Stop
  delivered,   \* MakeCallback calls made, in order
  reported,    \* what the native channel reported to CleanupInternals
  snapshots,   \* number of times CleanupInternals took the snapshot
  releasedBy,  \* which path released the binding: "none" | "native" | "pc"
  lastSend,    \* what the last call of Send did
  pcClosed,    \* OnPeerConnectionClosed was called
  closeCalls,  \* number of calls of Close
  binaryType,  \* RTCDataChannel::_binaryType
  lastSet,     \* what the last set of binaryType did
  dataPool,    \* the payloads the native channel may receive in this run
  handled,     \* the events the event loop has run, in order
  refCalls,    \* calls of _factory->Ref()
  unrefCalls,  \* calls of _factory->Unref()
  lastClose,   \* whether the last Close() called the native Close()
  pc,          \* SpecRace: position of the main and the signaling thread
  sstate,      \* SpecRace: the state OnStateChange read at line 126
  uar,         \* SpecRace: a null/stale _jingleDataChannel was dereferenced
  crashed      \* SpecRace: the process died on such a dereference

vars == <<nstate, nobserver, nattrs, nseq, nmsgs, obsQueue, phase, jingle,
          cached, loopQueue, stopped, stopCalls, delivered, reported,
          snapshots, releasedBy, lastSend, pcClosed, closeCalls,
          binaryType, lastSet, dataPool, handled, refCalls,
          unrefCalls, lastClose, pc, sstate, uar, crashed>>

raceVars == <<pc, sstate, uar, crashed>>

\* ------------------------------------------------------------------ values
DataStates == {"connecting", "open", "closing", "closed"}

\* The transitions the native channel makes (connecting -> open -> closing
\* -> closed, close() while connecting skips open).
NativeTransition(from, to) ==
  \/ from = "connecting" /\ to = "open"
  \/ from = "connecting" /\ to = "closing"
  \/ from = "open" /\ to = "closing"
  \/ from = "closing" /\ to = "closed"

\* The attributes of the native channel at creation.
NativeAttrs ==
  [id |-> 1, label |-> "chat", protocol |-> "proto", ordered |-> TRUE,
   negotiated |-> TRUE, maxRetransmits |-> 3, maxRetransmitTime |-> 100,
   buffered |-> 0]

\* The _cached_* fields of a freshly allocated RTCDataChannel: the strings
\* are default-constructed, the scalars are assigned at lines 87-92.
FreshCache ==
  [id |-> 0, label |-> "", protocol |-> "", ordered |-> FALSE,
   negotiated |-> FALSE, maxRetransmits |-> 0, maxRetransmitTime |-> 0,
   buffered |-> 0]

\* Lines 87-92 overwrite the scalar caches and leave the strings alone.
ResetCache(c) ==
  [c EXCEPT !.id = 0, !.maxRetransmitTime = 0, !.maxRetransmits = 0,
            !.negotiated = FALSE, !.ordered = FALSE, !.buffered = 0]

NoAttrs == [id |-> -1, label |-> "?", protocol |-> "?", ordered |-> FALSE,
            negotiated |-> FALSE, maxRetransmits |-> -1,
            maxRetransmitTime |-> -1, buffered |-> -1]

StateEvent(s, n) ==
  [kind |-> "state", state |-> s, binary |-> FALSE, data |-> <<>>, seq |-> n]
MessageEvent(b, d, n) ==
  [kind |-> "msg", state |-> "open", binary |-> b, data |-> d, seq |-> n]

\* The bytes of a webrtc::DataBuffer: with and without a zero byte, and empty.
MessageData == {<<>>, <<0>>, <<1>>}

\* What may follow the new char[size] buffer of HandleMessage in memory, up
\* to the first zero byte.
BeyondBuffer == {<<>>, <<1>>}

NoSet == [called |-> FALSE, value |-> "none", thrown |-> "none",
          succeeded |-> FALSE]

\* The values a script may assign to binaryType.
SetValues == {"array-buffer", "blob", "bogus"}

\* From<BinaryType>(value): the enumerator the string names, if any.
FromBinaryType(v) ==
  IF v = "array-buffer" THEN "kArrayBuffer"
  ELSE IF v = "blob" THEN "kBlob"
  ELSE "invalid"

\* The string GetBinaryType converts an enumerator to.
ToBinaryTypeString(t) ==
  IF t = "kArrayBuffer" THEN "array-buffer"
  ELSE IF t = "kBlob" THEN "blob"
  ELSE "undefined"

Payloads == {"string", "typedarray", "dataview", "arraybuffer", "other"}

NoSend == [called |-> FALSE, payload |-> "string", open |-> FALSE,
           created |-> "none", thrown |-> "none", handed |-> FALSE,
           nativeOk |-> FALSE]

\* ------------------------------------------------------------------- Init
ObserverCreated ==
  /\ nstate = "connecting"
  /\ nobserver = "observer"
  /\ nattrs = NativeAttrs
  /\ nseq = 0
  /\ nmsgs = 0
  /\ obsQueue = <<>>
  /\ phase = "observer"
  /\ jingle = FALSE
  /\ cached = FreshCache
  /\ loopQueue = <<>>
  /\ stopped = FALSE
  /\ stopCalls = 0
  /\ delivered = <<>>
  /\ reported = NoAttrs
  /\ snapshots = 0
  /\ releasedBy = "none"
  /\ lastSend = NoSend
  /\ pcClosed = FALSE
  /\ closeCalls = 0
  /\ binaryType = "unset"
  /\ lastSet = NoSet
  /\ handled = <<>>
  /\ refCalls = 1
  /\ unrefCalls = 0
  /\ lastClose = "none"
  /\ pc = [main |-> "idle", sig |-> "idle"]
  /\ sstate = "connecting"
  /\ uar = FALSE
  /\ crashed = FALSE

\* The remote peer sends one-byte messages.
Init == ObserverCreated /\ dataPool = {<<1>>}

\* ------------------------------------------------- event queue / event loop
\* EventQueue::Enqueue and EventLoop::Dispatch append at the tail; Dequeue
\* and the loop take from the head.
Enqueue(q, ev) == Append(q, ev)

Dispatch(q, ev) == Append(q, ev)

\* The event loop runs queued events until Stop was called.
LoopRuns == ~stopped /\ loopQueue # <<>>

\* Stop: the loop runs no further event.
Stop ==
  /\ stopped' = TRUE
  /\ stopCalls' = stopCalls + 1

\* MakeCallback(name, value) calls the listener.
Notification(name, value, n) ==
  [name |-> name, value |-> value, seq |-> n, bytes |-> <<>>]

\* ------------------------------------------------------------ the channel
\* What lines 107-114 store in the _cached_* fields, given what the native
\* channel reports.
Snapshot(na) ==
  [id |-> na.id, label |-> na.label, protocol |-> na.protocol,
   ordered |-> na.ordered, negotiated |-> na.negotiated,
   maxRetransmits |-> na.maxRetransmits,
   maxRetransmitTime |-> na.maxRetransmitTime, buffered |-> na.buffered]

\* RTCDataChannel::CleanupInternals.
CleanupInternals ==
  IF ~jingle
  THEN UNCHANGED <<jingle, nobserver, cached, reported, snapshots>>
  ELSE /\ nobserver' = "none"
       /\ cached' = Snapshot(nattrs)
       /\ reported' = nattrs
       /\ snapshots' = snapshots + 1
       /\ jingle' = FALSE

\* The getters: the native value while the binding is held, the cache after.
GetBufferedAmount == IF jingle THEN nattrs.buffered ELSE cached.buffered
GetId == IF jingle THEN nattrs.id ELSE cached.id
GetLabel == IF jingle THEN nattrs.label ELSE cached.label
GetMaxPacketLifeTime ==
  IF jingle THEN nattrs.maxRetransmitTime ELSE cached.maxRetransmitTime
GetMaxRetransmits ==
  IF jingle THEN nattrs.maxRetransmits ELSE cached.maxRetransmits
GetNegotiated == IF jingle THEN nattrs.negotiated ELSE cached.negotiated
GetOrdered == IF jingle THEN nattrs.ordered ELSE cached.ordered
GetProtocol == IF jingle THEN nattrs.protocol ELSE cached.protocol
GetReadyState == IF jingle THEN nstate ELSE "closed"

\* RTCDataChannel::OnStateChange, called by the native channel with the
\* state s it has just entered; ev is the event it dispatches.
ChannelOnStateChange(s, ev) ==
  /\ IF s = "closed"
     THEN /\ CleanupInternals
          /\ releasedBy' = IF jingle THEN "native" ELSE releasedBy
     ELSE UNCHANGED <<jingle, nobserver, cached, reported, snapshots,
                      releasedBy>>
  /\ loopQueue' = Dispatch(loopQueue, ev)

\* RTCDataChannel::OnMessage.
ChannelOnMessage(ev) == loopQueue' = Dispatch(loopQueue, ev)

\* DataChannelObserver::OnStateChange and OnMessage: cache the event.
ObserverOnEvent(ev) == obsQueue' = Enqueue(obsQueue, ev)

\* HandleStateChange without the Stop of lines 145-147.
HandleStateChangeNoStop(ev) ==
  /\ delivered' =
       IF ev.state \in {"closed", "open"}
       THEN Append(delivered, Notification("onstatechange", ev.state, ev.seq))
       ELSE delivered
  /\ UNCHANGED <<stopped, stopCalls>>

\* HandleStateChange making the callback for every state.
HandleStateChangeEveryState(ev) ==
  /\ delivered' =
       Append(delivered, Notification("onstatechange", ev.state, ev.seq))
  /\ IF ev.state = "closed" THEN Stop ELSE UNCHANGED <<stopped, stopCalls>>

\* RTCDataChannel::HandleStateChange.
HandleStateChange(ev) ==
  /\ delivered' =
       IF ev.state = "closed"
       THEN Append(delivered, Notification("onstatechange", "closed", ev.seq))
       ELSE IF ev.state = "open"
       THEN Append(delivered, Notification("onstatechange", "open", ev.seq))
       ELSE delivered
  /\ IF ev.state = "closed" THEN Stop ELSE UNCHANGED <<stopped, stopCalls>>

\* The characters of the C string that starts at the head of bytes b: those
\* before the first zero byte.
RECURSIVE CString(_)
CString(b) ==
  IF b = <<>> \/ Head(b) = 0 THEN <<>> ELSE <<Head(b)>> \o CString(Tail(b))

\* The values line 171 can build from a buffer holding the bytes d: it
\* reads a C string, and the buffer of line 159 has no terminator of its
\* own, so a buffer without a zero byte is read past its end.
TextValues(d) == {CString(d \o g) : g \in BeyondBuffer}

\* RTCDataChannel::HandleMessage.
HandleMessage(ev) ==
  /\ \E v \in IF ev.binary THEN {ev.data} ELSE TextValues(ev.data) :
       delivered' =
         Append(delivered,
                [name |-> "onmessage",
                 value |-> IF ev.binary THEN "binary" ELSE "text",
                 seq |-> ev.seq, bytes |-> v])
  /\ UNCHANGED <<stopped, stopCalls>>

\* Send without the final else of lines 209-212: any payload that is not a
\* string is sent as a buffer.
SendOutcomeNoTypeCheck(j, s, p) ==
  IF j /\ s = "open"
  THEN [created |-> "none", thrown |-> "none", hands |-> TRUE]
  ELSE [created |-> "InvalidStateError", thrown |-> "none", hands |-> FALSE]

\* What Send does with payload p when the binding is held (j) and the
\* native channel is in state s: the error object it creates, the exception
\* it throws, and whether it hands a buffer to the native channel.
SendOutcome(j, s, p) ==
  IF j
  THEN IF s # "open"
       THEN [created |-> "InvalidStateError", thrown |-> "none",
             hands |-> FALSE]
       ELSE IF p = "string"
       THEN [created |-> "none", thrown |-> "none", hands |-> TRUE]
       ELSE IF p \in {"typedarray", "dataview", "arraybuffer"}
       THEN [created |-> "none", thrown |-> "none", hands |-> TRUE]
       ELSE [created |-> "TypeError", thrown |-> "TypeError",
             hands |-> FALSE]
  ELSE [created |-> "InvalidStateError", thrown |-> "none", hands |-> FALSE]

\* ------------------------------------------------ the native channel (env)
\* The native channel delivers an event to the observer registered with it.
DeliverState(s, ev) ==
  CASE nobserver = "observer" ->
         /\ ObserverOnEvent(ev)
         /\ UNCHANGED <<jingle, nobserver, cached, reported, snapshots,
                        releasedBy, loopQueue>>
    [] nobserver = "channel" ->
         /\ ChannelOnStateChange(s, ev)
         /\ UNCHANGED obsQueue
    [] OTHER ->
         UNCHANGED <<jingle, nobserver, cached, reported, snapshots,
                     releasedBy, loopQueue, obsQueue>>

\* The native channel changes state and calls OnStateChange.
NativeStateChange ==
  \E s \in DataStates :
    /\ NativeTransition(nstate, s)
    /\ nstate' = s
    /\ nseq' = nseq + 1
    /\ DeliverState(s, StateEvent(s, nseq + 1))
    /\ UNCHANGED <<nattrs, nmsgs, phase, stopped, stopCalls, delivered,
                   lastSend, pcClosed, closeCalls>>
    /\ UNCHANGED raceVars
    /\ UNCHANGED <<binaryType, lastSet, dataPool, handled,
                   refCalls, unrefCalls, lastClose>>

\* The native channel receives a message and calls OnMessage.
NativeMessage ==
  \E b \in BOOLEAN, d \in dataPool :
    /\ nstate = "open"
    /\ nmsgs < MaxMsgs
    /\ nobserver # "none"
    /\ nmsgs' = nmsgs + 1
    /\ nseq' = nseq + 1
    /\ IF nobserver = "observer"
       THEN ObserverOnEvent(MessageEvent(b, d, nseq + 1)) /\ UNCHANGED loopQueue
       ELSE ChannelOnMessage(MessageEvent(b, d, nseq + 1)) /\ UNCHANGED obsQueue
    /\ UNCHANGED <<nstate, nobserver, nattrs, phase, jingle, cached, stopped,
                   stopCalls, delivered, reported, snapshots, releasedBy,
                   lastSend, pcClosed, closeCalls>>
    /\ UNCHANGED raceVars
    /\ UNCHANGED <<binaryType, lastSet, dataPool, handled,
                   refCalls, unrefCalls, lastClose>>

\* The native channel hands a buffered message to the transport.
NativeDrain ==
  /\ nattrs.buffered > 0
  /\ nattrs' = [nattrs EXCEPT !.buffered = @ - 1]
  /\ UNCHANGED <<nstate, nobserver, nseq, nmsgs, obsQueue, phase, jingle,
                 cached, loopQueue, stopped, stopCalls, delivered, reported,
                 snapshots, releasedBy, lastSend, pcClosed, closeCalls>>
  /\ UNCHANGED raceVars
  /\ UNCHANGED <<binaryType, lastSet, dataPool, handled,
                 refCalls, unrefCalls, lastClose>>

\* The constructor's first step without the _factory->Ref() of line 76.
CtorRegisterNoRef ==
  /\ phase = "observer"
  /\ phase' = "registering"
  /\ binaryType' = "kArrayBuffer"
  /\ refCalls' = refCalls
  /\ jingle' = TRUE
  /\ nobserver' = "channel"
  /\ UNCHANGED <<nstate, nattrs, nseq, nmsgs, obsQueue, cached, loopQueue,
                 stopped, stopCalls, delivered, reported, snapshots,
                 releasedBy, lastSend, pcClosed, closeCalls>>
  /\ UNCHANGED raceVars
  /\ UNCHANGED <<lastSet, dataPool, handled, unrefCalls, lastClose>>

\* -------------------------------------------------------- the constructor
\* Lines 62-79: take the observer's factory and native channel, register
\* this channel as the native channel's observer.
CtorRegister ==
  /\ phase = "observer"
  /\ phase' = "registering"
  /\ binaryType' = "kArrayBuffer"
  /\ refCalls' = refCalls + 1
  /\ jingle' = TRUE
  /\ nobserver' = "channel"
  /\ UNCHANGED <<nstate, nattrs, nseq, nmsgs, obsQueue, cached, loopQueue,
                 stopped, stopCalls, delivered, reported, snapshots,
                 releasedBy, lastSend, pcClosed, closeCalls>>
  /\ UNCHANGED raceVars
  /\ UNCHANGED <<lastSet, dataPool, handled, unrefCalls, lastClose>>

\* requeue taking an event from the observer without dispatching it.
CtorRequeueDrop ==
  /\ phase = "registering"
  /\ obsQueue # <<>>
  /\ loopQueue' = loopQueue
  /\ obsQueue' = Tail(obsQueue)
  /\ UNCHANGED <<nstate, nobserver, nattrs, nseq, nmsgs, phase, jingle,
                 cached, stopped, stopCalls, delivered, reported, snapshots,
                 releasedBy, lastSend, pcClosed, closeCalls>>
  /\ UNCHANGED raceVars
  /\ UNCHANGED <<binaryType, lastSet, dataPool, handled,
                 refCalls, unrefCalls, lastClose>>

\* One turn of requeue's loop: Dequeue from the observer, Dispatch to the
\* channel.
CtorRequeue ==
  /\ phase = "registering"
  /\ obsQueue # <<>>
  /\ loopQueue' = Dispatch(loopQueue, Head(obsQueue))
  /\ obsQueue' = Tail(obsQueue)
  /\ UNCHANGED <<nstate, nobserver, nattrs, nseq, nmsgs, phase, jingle,
                 cached, stopped, stopCalls, delivered, reported, snapshots,
                 releasedBy, lastSend, pcClosed, closeCalls>>
  /\ UNCHANGED raceVars
  /\ UNCHANGED <<binaryType, lastSet, dataPool, handled,
                 refCalls, unrefCalls, lastClose>>

\* requeue's loop ends on the empty queue; lines 84-92 delete the observer
\* and assign the scalar caches.
CtorFinish ==
  /\ phase = "registering"
  /\ obsQueue = <<>>
  /\ phase' = "live"
  /\ unrefCalls' = unrefCalls + 1
  /\ cached' = ResetCache(cached)
  /\ UNCHANGED <<nstate, nobserver, nattrs, nseq, nmsgs, obsQueue, jingle,
                 loopQueue, stopped, stopCalls, delivered, reported,
                 snapshots, releasedBy, lastSend, pcClosed, closeCalls>>
  /\ UNCHANGED raceVars
  /\ UNCHANGED <<binaryType, lastSet, dataPool, handled,
                 refCalls, lastClose>>

\* ------------------------------------------------- main-thread operations
\* RTCDataChannel::Send with payload p; ok is the native Send's result when
\* a buffer is handed over (the native channel refuses when its buffer is
\* full, and may refuse otherwise).
Send(p) ==
  LET o == SendOutcome(jingle, nstate, p) IN
  /\ phase = "live"
  /\ \E ok \in BOOLEAN :
       /\ ok => (o.hands /\ nattrs.buffered < MaxBuf)
       /\ nattrs' = IF ok THEN [nattrs EXCEPT !.buffered = @ + 1] ELSE nattrs
       /\ lastSend' =
            [called |-> TRUE, payload |-> p,
             open |-> (jingle /\ nstate = "open"),
             created |-> o.created, thrown |-> o.thrown, handed |-> o.hands,
             nativeOk |-> ok]
  /\ UNCHANGED <<nstate, nobserver, nseq, nmsgs, obsQueue, phase, jingle,
                 cached, loopQueue, stopped, stopCalls, delivered, reported,
                 snapshots, releasedBy, pcClosed, closeCalls>>
  /\ UNCHANGED raceVars
  /\ UNCHANGED <<binaryType, lastSet, dataPool, handled,
                 refCalls, unrefCalls, lastClose>>

\* RTCDataChannel::Close: the native Close() moves a connecting or open
\* channel to closing, which the native channel reports to its observer.
Close ==
  /\ phase = "live"
  /\ closeCalls < MaxClose
  /\ closeCalls' = closeCalls + 1
  /\ lastClose' = IF jingle THEN "native" ELSE "skipped"
  /\ IF jingle /\ nstate \in {"connecting", "open"}
     THEN /\ nstate' = "closing"
          /\ nseq' = nseq + 1
          /\ DeliverState("closing", StateEvent("closing", nseq + 1))
     ELSE UNCHANGED <<nstate, nseq, jingle, nobserver, cached, reported,
                      snapshots, releasedBy, loopQueue, obsQueue>>
  /\ UNCHANGED <<nattrs, nmsgs, phase, stopped, stopCalls, delivered,
                 lastSend, pcClosed>>
  /\ UNCHANGED raceVars
  /\ UNCHANGED <<binaryType, lastSet, dataPool, handled,
                 refCalls, unrefCalls>>

\* OnPeerConnectionClosed without the Stop of line 121.
OnPeerConnectionClosedNoStop ==
  /\ phase = "live"
  /\ pcClosed' = TRUE
  /\ IF jingle
     THEN CleanupInternals /\ releasedBy' = "pc"
     ELSE UNCHANGED <<jingle, nobserver, cached, reported, snapshots,
                      releasedBy>>
  /\ UNCHANGED <<nstate, nattrs, nseq, nmsgs, obsQueue, phase, loopQueue,
                 delivered, lastSend, closeCalls, stopped, stopCalls>>
  /\ UNCHANGED raceVars
  /\ UNCHANGED <<binaryType, lastSet, dataPool, handled,
                 refCalls, unrefCalls, lastClose>>

\* RTCDataChannel::OnPeerConnectionClosed.
OnPeerConnectionClosed ==
  /\ phase = "live"
  /\ pcClosed' = TRUE
  /\ IF jingle
     THEN /\ CleanupInternals
          /\ releasedBy' = "pc"
          /\ Stop
     ELSE UNCHANGED <<jingle, nobserver, cached, reported, snapshots,
                      releasedBy, stopped, stopCalls>>
  /\ UNCHANGED <<nstate, nattrs, nseq, nmsgs, obsQueue, phase, loopQueue,
                 delivered, lastSend, closeCalls>>
  /\ UNCHANGED raceVars
  /\ UNCHANGED <<binaryType, lastSet, dataPool, handled,
                 refCalls, unrefCalls, lastClose>>

\* The event loop runs the event at the head of its queue.
RunEvent ==
  /\ phase = "live"
  /\ LoopRuns
  /\ loopQueue' = Tail(loopQueue)
  /\ handled' = Append(handled, Head(loopQueue))
  /\ IF Head(loopQueue).kind = "state"
     THEN HandleStateChange(Head(loopQueue))
     ELSE HandleMessage(Head(loopQueue))
  /\ UNCHANGED <<nstate, nobserver, nattrs, nseq, nmsgs, obsQueue, phase,
                 jingle, cached, reported, snapshots, releasedBy, lastSend,
                 pcClosed, closeCalls>>
  /\ UNCHANGED raceVars
  /\ UNCHANGED <<binaryType, lastSet, dataPool,
                 refCalls, unrefCalls, lastClose>>

SendAny == \E p \in Payloads : Send(p)

\* RTCDataChannel::GetBinaryType.
GetBinaryType == ToBinaryTypeString(binaryType)

\* SetBinaryType without the check of lines 321-324.
SetBinaryTypeNoCheck(v) ==
  /\ phase = "live"
  /\ binaryType' = FromBinaryType(v)
  /\ lastSet' = [called |-> TRUE, value |-> v,
                 thrown |-> IF FromBinaryType(v) = "invalid"
                            THEN "TypeError" ELSE "none",
                 succeeded |-> TRUE]
  /\ UNCHANGED <<nstate, nobserver, nattrs, nseq, nmsgs, obsQueue, phase,
                 jingle, cached, loopQueue, stopped, stopCalls, delivered,
                 reported, snapshots, releasedBy, lastSend, pcClosed,
                 closeCalls>>
  /\ UNCHANGED raceVars
  /\ UNCHANGED <<dataPool, handled, refCalls, unrefCalls, lastClose>>

\* RTCDataChannel::SetBinaryType.
SetBinaryType(v) ==
  /\ phase = "live"
  /\ IF FromBinaryType(v) = "invalid"
     THEN /\ lastSet' = [called |-> TRUE, value |-> v,
                         thrown |-> "TypeError",
                         succeeded |-> lastSet.succeeded]
          /\ UNCHANGED binaryType
     ELSE /\ binaryType' = FromBinaryType(v)
          /\ lastSet' = [called |-> TRUE, value |-> v, thrown |-> "none",
                         succeeded |-> TRUE]
  /\ UNCHANGED <<nstate, nobserver, nattrs, nseq, nmsgs, obsQueue, phase,
                 jingle, cached, loopQueue, stopped, stopCalls, delivered,
                 reported, snapshots, releasedBy, lastSend, pcClosed,
                 closeCalls>>
  /\ UNCHANGED raceVars
  /\ UNCHANGED <<dataPool, handled, refCalls, unrefCalls, lastClose>>

SetBinaryTypeAny == \E v \in SetValues : SetBinaryType(v)

\* RTCDataChannel::~RTCDataChannel.  The wrapper keeps the object alive
\* until its event loop was stopped.
Destroy ==
  /\ phase = "live"
  /\ stopped
  /\ phase' = "destroyed"
  /\ unrefCalls' = unrefCalls + 1
  /\ UNCHANGED <<nstate, nobserver, nattrs, nseq, nmsgs, obsQueue, jingle,
                 cached, loopQueue, stopped, stopCalls, delivered, reported,
                 snapshots, releasedBy, lastSend, pcClosed, closeCalls>>
  /\ UNCHANGED raceVars
  /\ UNCHANGED <<binaryType, lastSet, dataPool, handled, refCalls, lastClose>>

Next ==
  \/ NativeStateChange
  \/ NativeMessage
  \/ NativeDrain
  \/ CtorRegister
  \/ CtorRequeue
  \/ CtorFinish
  \/ SendAny
  \/ Close
  \/ OnPeerConnectionClosed
  \/ RunEvent
  \/ Destroy

Spec == Init /\ [][Next]_vars

\* The remote peer sends any of the payloads of MessageData.
DataInit == ObserverCreated /\ dataPool = MessageData

SpecData == DataInit /\ [][Next]_vars

\* A channel that receives no message, with a script that also assigns
\* binaryType.
NextBinaryType ==
  \/ NativeStateChange
  \/ NativeDrain
  \/ CtorRegister
  \/ CtorRequeue
  \/ CtorFinish
  \/ SendAny
  \/ Close
  \/ SetBinaryTypeAny
  \/ OnPeerConnectionClosed
  \/ RunEvent
  \/ Destroy

SpecBinaryType == Init /\ [][NextBinaryType]_vars

\* --------------------------------------------------------------- SpecRace
\* A constructed channel (the state after CtorRegister and CtorFinish).
RaceInit ==
  /\ nstate = "connecting"
  /\ nobserver = "channel"
  /\ nattrs = NativeAttrs
  /\ nseq = 0
  /\ nmsgs = 0
  /\ obsQueue = <<>>
  /\ phase = "live"
  /\ jingle = TRUE
  /\ cached = ResetCache(FreshCache)
  /\ loopQueue = <<>>
  /\ stopped = FALSE
  /\ stopCalls = 0
  /\ delivered = <<>>
  /\ reported = NoAttrs
  /\ snapshots = 0
  /\ releasedBy = "none"
  /\ lastSend = NoSend
  /\ pcClosed = FALSE
  /\ closeCalls = 0
  /\ binaryType = "kArrayBuffer"
  /\ lastSet = NoSet
  /\ dataPool = {<<1>>}
  /\ handled = <<>>
  /\ refCalls = 2
  /\ unrefCalls = 1
  /\ lastClose = "none"
  /\ pc = [main |-> "idle", sig |-> "idle"]
  /\ sstate = "connecting"
  /\ uar = FALSE
  /\ crashed = FALSE

Goto(ctx, l) == pc' = [pc EXCEPT ![ctx] = l]

\* Calls the main thread makes on the native channel run on the signaling
\* thread, between its callbacks.
NativeCallable(ctx) == ctx = "main" => pc.sig = "idle"

\* The outcomes of _jingleDataChannel->f(): with the binding held the call
\* is made; with the binding released the process dies on the null
\* pointer, or the call is made through a stale pointer.
DerefOutcomes == IF jingle THEN {"call"} ELSE {"crash", "call"}

\* Where CleanupInternals returns to: OnStateChange line 130 on the
\* signaling thread, OnPeerConnectionClosed line 121 on the main thread.
AfterCleanup(ctx) == IF ctx = "sig" THEN "osc_dispatch" ELSE "pc_stop"

SendResult(p, o, ok) ==
  [called |-> TRUE, payload |-> p, open |-> o.hands \/ o.thrown = "TypeError",
   created |-> o.created, thrown |-> o.thrown, handed |-> o.hands,
   nativeOk |-> ok]

\* The native channel changes state; with the channel registered, the
\* signaling thread enters RTCDataChannel::OnStateChange.
R_NativeStateChange ==
  /\ ~crashed
  /\ pc.sig = "idle"
  /\ \E s \in DataStates : NativeTransition(nstate, s) /\ nstate' = s
  /\ nseq' = nseq + 1
  /\ Goto("sig", IF nobserver = "channel" THEN "osc_read" ELSE "idle")
  /\ UNCHANGED <<nobserver, nattrs, nmsgs, obsQueue, phase, jingle, cached,
                 loopQueue, stopped, stopCalls, delivered, reported,
                 snapshots, releasedBy, lastSend, pcClosed, closeCalls,
                 sstate, uar, crashed>>
  /\ UNCHANGED <<binaryType, lastSet, dataPool, handled,
                 refCalls, unrefCalls, lastClose>>

\* The native channel receives a message: RTCDataChannel::OnMessage.
R_NativeMessage ==
  \E b \in BOOLEAN, d \in dataPool :
    /\ ~crashed
    /\ pc.sig = "idle"
    /\ nstate = "open"
    /\ nmsgs < MaxMsgs
    /\ nobserver = "channel"
    /\ nmsgs' = nmsgs + 1
    /\ nseq' = nseq + 1
    /\ ChannelOnMessage(MessageEvent(b, d, nseq + 1))
    /\ UNCHANGED <<nstate, nobserver, nattrs, obsQueue, phase, jingle, cached,
                   stopped, stopCalls, delivered, reported, snapshots,
                   releasedBy, lastSend, pcClosed, closeCalls>>
    /\ UNCHANGED raceVars
    /\ UNCHANGED <<binaryType, lastSet, dataPool, handled,
                   refCalls, unrefCalls, lastClose>>

R_NativeDrain ==
  /\ ~crashed
  /\ pc.sig = "idle"
  /\ NativeDrain

\* OnStateChange line 126: read the native state through the binding.
R_OnStateChangeRead ==
  /\ ~crashed
  /\ pc.sig = "osc_read"
  /\ sstate' = nstate
  /\ uar' = (uar \/ ~jingle)
  /\ Goto("sig", IF nstate = "closed" THEN "cu_check" ELSE "osc_dispatch")
  /\ UNCHANGED <<nstate, nobserver, nattrs, nseq, nmsgs, obsQueue, phase,
                 jingle, cached, loopQueue, stopped, stopCalls, delivered,
                 reported, snapshots, releasedBy, lastSend, pcClosed,
                 closeCalls, crashed>>
  /\ UNCHANGED <<binaryType, lastSet, dataPool, handled,
                 refCalls, unrefCalls, lastClose>>

\* OnStateChange line 130: dispatch HandleStateChange(state).
R_OnStateChangeDispatch ==
  /\ ~crashed
  /\ pc.sig = "osc_dispatch"
  /\ loopQueue' = Dispatch(loopQueue, StateEvent(sstate, nseq))
  /\ Goto("sig", "idle")
  /\ UNCHANGED <<nstate, nobserver, nattrs, nseq, nmsgs, obsQueue, phase,
                 jingle, cached, stopped, stopCalls, delivered, reported,
                 snapshots, releasedBy, lastSend, pcClosed, closeCalls,
                 sstate, uar, crashed>>
  /\ UNCHANGED <<binaryType, lastSet, dataPool, handled,
                 refCalls, unrefCalls, lastClose>>

\* CleanupInternals line 103: the null check.
R_CleanupCheck(ctx) ==
  /\ ~crashed
  /\ pc[ctx] = "cu_check"
  /\ Goto(ctx, IF jingle THEN "cu_snap" ELSE AfterCleanup(ctx))
  /\ UNCHANGED <<nstate, nobserver, nattrs, nseq, nmsgs, obsQueue, phase,
                 jingle, cached, loopQueue, stopped, stopCalls, delivered,
                 reported, snapshots, releasedBy, lastSend, pcClosed,
                 closeCalls, sstate, uar, crashed>>
  /\ UNCHANGED <<binaryType, lastSet, dataPool, handled,
                 refCalls, unrefCalls, lastClose>>

\* CleanupInternals lines 106-114: unregister, read and cache the
\* attributes, all through the binding.
R_CleanupSnapshot(ctx) ==
  /\ ~crashed
  /\ pc[ctx] = "cu_snap"
  /\ NativeCallable(ctx)
  /\ uar' = (uar \/ ~jingle)
  /\ \E out \in DerefOutcomes :
       IF out = "crash"
       THEN /\ crashed' = TRUE
            /\ UNCHANGED <<nobserver, cached, reported, snapshots, pc>>
       ELSE /\ crashed' = crashed
            /\ nobserver' = "none"
            /\ cached' = Snapshot(nattrs)
            /\ reported' = nattrs
            /\ snapshots' = snapshots + 1
            /\ Goto(ctx, "cu_rel")
  /\ UNCHANGED <<nstate, nattrs, nseq, nmsgs, obsQueue, phase, jingle,
                 loopQueue, stopped, stopCalls, delivered, releasedBy,
                 lastSend, pcClosed, closeCalls, sstate>>
  /\ UNCHANGED <<binaryType, lastSet, dataPool, handled,
                 refCalls, unrefCalls, lastClose>>

\* CleanupInternals line 115: release the binding.
R_CleanupRelease(ctx) ==
  /\ ~crashed
  /\ pc[ctx] = "cu_rel"
  /\ jingle' = FALSE
  /\ releasedBy' = IF ctx = "main" THEN "pc" ELSE "native"
  /\ Goto(ctx, AfterCleanup(ctx))
  /\ UNCHANGED <<nstate, nobserver, nattrs, nseq, nmsgs, obsQueue, phase,
                 cached, loopQueue, stopped, stopCalls, delivered, reported,
                 snapshots, lastSend, pcClosed, closeCalls, sstate, uar,
                 crashed>>
  /\ UNCHANGED <<binaryType, lastSet, dataPool, handled,
                 refCalls, unrefCalls, lastClose>>

\* OnPeerConnectionClosed line 119.
R_PeerConnectionClosedBegin ==
  /\ ~crashed
  /\ pc.main = "idle"
  /\ pcClosed' = TRUE
  /\ Goto("main", IF jingle THEN "cu_check" ELSE "idle")
  /\ UNCHANGED <<nstate, nobserver, nattrs, nseq, nmsgs, obsQueue, phase,
                 jingle, cached, loopQueue, stopped, stopCalls, delivered,
                 reported, snapshots, releasedBy, lastSend, closeCalls,
                 sstate, uar, crashed>>
  /\ UNCHANGED <<binaryType, lastSet, dataPool, handled,
                 refCalls, unrefCalls, lastClose>>

\* OnPeerConnectionClosed line 121.
R_PeerConnectionClosedStop ==
  /\ ~crashed
  /\ pc.main = "pc_stop"
  /\ Stop
  /\ Goto("main", "idle")
  /\ UNCHANGED <<nstate, nobserver, nattrs, nseq, nmsgs, obsQueue, phase,
                 jingle, cached, loopQueue, delivered, reported, snapshots,
                 releasedBy, lastSend, pcClosed, closeCalls, sstate, uar,
                 crashed>>
  /\ UNCHANGED <<binaryType, lastSet, dataPool, handled,
                 refCalls, unrefCalls, lastClose>>

\* Send line 179: the null check.
R_SendBegin(p) ==
  /\ ~crashed
  /\ pc.main = "idle"
  /\ IF jingle
     THEN /\ lastSend' = [NoSend EXCEPT !.payload = p]
          /\ Goto("main", "send_state")
     ELSE /\ lastSend' = SendResult(p, SendOutcome(FALSE, nstate, p), FALSE)
          /\ UNCHANGED pc
  /\ UNCHANGED <<nstate, nobserver, nattrs, nseq, nmsgs, obsQueue, phase,
                 jingle, cached, loopQueue, stopped, stopCalls, delivered,
                 reported, snapshots, releasedBy, pcClosed, closeCalls,
                 sstate, uar, crashed>>
  /\ UNCHANGED <<binaryType, lastSet, dataPool, handled,
                 refCalls, unrefCalls, lastClose>>

\* Send line 180: read the native state through the binding.
R_SendState ==
  /\ ~crashed
  /\ pc.main = "send_state"
  /\ NativeCallable("main")
  /\ uar' = (uar \/ ~jingle)
  /\ \E out \in DerefOutcomes :
       IF out = "crash"
       THEN crashed' = TRUE /\ UNCHANGED <<lastSend, pc>>
       ELSE /\ crashed' = crashed
            /\ IF nstate # "open"
               THEN /\ lastSend' =
                         SendResult(lastSend.payload,
                                    SendOutcome(TRUE, nstate, lastSend.payload),
                                    FALSE)
                    /\ Goto("main", "idle")
               ELSE /\ UNCHANGED lastSend
                    /\ Goto("main", "send_call")
  /\ UNCHANGED <<nstate, nobserver, nattrs, nseq, nmsgs, obsQueue, phase,
                 jingle, cached, loopQueue, stopped, stopCalls, delivered,
                 reported, snapshots, releasedBy, pcClosed, closeCalls,
                 sstate>>
  /\ UNCHANGED <<binaryType, lastSet, dataPool, handled,
                 refCalls, unrefCalls, lastClose>>

\* Send lines 185-219: build the buffer and hand it to the native channel
\* through the binding, or throw the TypeError.
R_SendCall ==
  LET o == SendOutcome(TRUE, "open", lastSend.payload) IN
  /\ ~crashed
  /\ pc.main = "send_call"
  /\ NativeCallable("main")
  /\ uar' = (uar \/ (o.hands /\ ~jingle))
  /\ \E out \in (IF o.hands THEN DerefOutcomes ELSE {"call"}) :
       IF out = "crash"
       THEN crashed' = TRUE /\ UNCHANGED <<lastSend, pc, nattrs>>
       ELSE /\ crashed' = crashed
            /\ \E ok \in BOOLEAN :
                 /\ ok => (o.hands /\ nattrs.buffered < MaxBuf)
                 /\ nattrs' =
                      IF ok THEN [nattrs EXCEPT !.buffered = @ + 1] ELSE nattrs
                 /\ lastSend' = SendResult(lastSend.payload, o, ok)
            /\ Goto("main", "idle")
  /\ UNCHANGED <<nstate, nobserver, nseq, nmsgs, obsQueue, phase, jingle,
                 cached, loopQueue, stopped, stopCalls, delivered, reported,
                 snapshots, releasedBy, pcClosed, closeCalls, sstate>>
  /\ UNCHANGED <<binaryType, lastSet, dataPool, handled,
                 refCalls, unrefCalls, lastClose>>

\* Close line 230: the null check.
R_CloseBegin ==
  /\ ~crashed
  /\ pc.main = "idle"
  /\ closeCalls < MaxClose
  /\ closeCalls' = closeCalls + 1
  /\ Goto("main", IF jingle THEN "close_call" ELSE "idle")
  /\ lastClose' = IF jingle THEN lastClose ELSE "skipped"
  /\ UNCHANGED <<nstate, nobserver, nattrs, nseq, nmsgs, obsQueue, phase,
                 jingle, cached, loopQueue, stopped, stopCalls, delivered,
                 reported, snapshots, releasedBy, lastSend, pcClosed,
                 sstate, uar, crashed>>
  /\ UNCHANGED <<binaryType, lastSet, dataPool, handled,
                 refCalls, unrefCalls>>

\* Close line 231: the native Close() through the binding; a connecting or
\* open native channel moves to closing and calls its observer.
R_CloseCall ==
  /\ ~crashed
  /\ pc.main = "close_call"
  /\ NativeCallable("main")
  /\ uar' = (uar \/ ~jingle)
  /\ lastClose' = "native"
  /\ \E out \in DerefOutcomes :
       IF out = "crash"
       THEN crashed' = TRUE /\ UNCHANGED <<nstate, nseq, pc>>
       ELSE /\ crashed' = crashed
            /\ IF nstate \in {"connecting", "open"}
               THEN /\ nstate' = "closing"
                    /\ nseq' = nseq + 1
                    /\ pc' = [main |-> "idle",
                              sig |-> IF nobserver = "channel"
                                      THEN "osc_read" ELSE "idle"]
               ELSE /\ UNCHANGED <<nstate, nseq>>
                    /\ Goto("main", "idle")
  /\ UNCHANGED <<nobserver, nattrs, nmsgs, obsQueue, phase, jingle, cached,
                 loopQueue, stopped, stopCalls, delivered, reported,
                 snapshots, releasedBy, lastSend, pcClosed, closeCalls,
                 sstate>>
  /\ UNCHANGED <<binaryType, lastSet, dataPool, handled,
                 refCalls, unrefCalls>>

\* GetBufferedAmount line 237: the null check (the cache is read when the
\* binding is released).
R_GetBufferedAmountBegin ==
  /\ ~crashed
  /\ pc.main = "idle"
  /\ jingle
  /\ Goto("main", "get_read")
  /\ UNCHANGED <<nstate, nobserver, nattrs, nseq, nmsgs, obsQueue, phase,
                 jingle, cached, loopQueue, stopped, stopCalls, delivered,
                 reported, snapshots, releasedBy, lastSend, pcClosed,
                 closeCalls, sstate, uar, crashed>>
  /\ UNCHANGED <<binaryType, lastSet, dataPool, handled,
                 refCalls, unrefCalls, lastClose>>

\* GetBufferedAmount line 238: buffered_amount() through the binding.
R_GetBufferedAmountRead ==
  /\ ~crashed
  /\ pc.main = "get_read"
  /\ NativeCallable("main")
  /\ uar' = (uar \/ ~jingle)
  /\ \E out \in DerefOutcomes :
       IF out = "crash"
       THEN crashed' = TRUE /\ UNCHANGED pc
       ELSE crashed' = crashed /\ Goto("main", "idle")
  /\ UNCHANGED <<nstate, nobserver, nattrs, nseq, nmsgs, obsQueue, phase,
                 jingle, cached, loopQueue, stopped, stopCalls, delivered,
                 reported, snapshots, releasedBy, lastSend, pcClosed,
                 closeCalls, sstate>>
  /\ UNCHANGED <<binaryType, lastSet, dataPool, handled,
                 refCalls, unrefCalls, lastClose>>

\* The event loop runs an event between the main thread's handlers.
R_RunEvent ==
  /\ ~crashed
  /\ pc.main = "idle"
  /\ RunEvent

R_SendAny == \E p \in Payloads : R_SendBegin(p)

R_Cleanup ==
  \E ctx \in {"main", "sig"} :
    R_CleanupCheck(ctx) \/ R_CleanupSnapshot(ctx) \/ R_CleanupRelease(ctx)

RaceNext ==
  \/ R_NativeStateChange
  \/ R_NativeMessage
  \/ R_NativeDrain
  \/ R_OnStateChangeRead
  \/ R_OnStateChangeDispatch
  \/ R_Cleanup
  \/ R_PeerConnectionClosedBegin
  \/ R_PeerConnectionClosedStop
  \/ R_SendAny
  \/ R_SendState
  \/ R_SendCall
  \/ R_CloseBegin
  \/ R_CloseCall
  \/ R_GetBufferedAmountBegin
  \/ R_GetBufferedAmountRead
  \/ R_RunEvent

SpecRace == RaceInit /\ [][RaceNext]_vars

\* ------------------------------------------------------------------ claims
\* Number of 'closed' state-change notifications the listener has received.
ClosedCount ==
  Cardinality({i \in DOMAIN delivered :
                 /\ delivered[i].name = "onstatechange"
                 /\ delivered[i].value = "closed"})

\* A HandleStateChange(closed) event waits in the channel's loop queue.
ClosedPending ==
  \E i \in DOMAIN loopQueue :
    loopQueue[i].kind = "state" /\ loopQueue[i].state = "closed"

\* Nothing more will be delivered: the channel is constructed and its loop
\* is stopped or has drained its queue.
LoopSettled == phase = "live" /\ (stopped \/ loopQueue = <<>>)

\* C1 (as claimed): a Send on a channel that is not open (native state
\* connecting, closing or closed, or binding released) raises an
\* InvalidStateError to its caller.
C1_SendNotOpenRaisesInvalidState ==
  (lastSend.called /\ ~lastSend.open) => lastSend.thrown = "InvalidStateError"

\* C2 (as claimed): once Close() was called twice and the native channel has
\* closed and nothing more is to be delivered, the listener has received
\* exactly one 'closed' notification.
C2_CloseTwiceOneClosed ==
  (closeCalls >= 2 /\ nstate = "closed" /\ LoopSettled) => ClosedCount = 1

\* C3 (as claimed): a channel that has ended in Closed (readyState reads
\* closed and nothing more is to be delivered) has received the 'closed'
\* notification exactly once, whichever way it was closed.
C3_EndsClosedOneClosed ==
  (GetReadyState = "closed" /\ LoopSettled) => ClosedCount = 1

\* C4 (as claimed): once CleanupInternals has released the binding, every
\* getter returns what the native channel reported at the release.
C4_GettersServeSnapshot ==
  snapshots > 0 =>
    /\ GetId = reported.id
    /\ GetLabel = reported.label
    /\ GetProtocol = reported.protocol
    /\ GetOrdered = reported.ordered
    /\ GetNegotiated = reported.negotiated
    /\ GetMaxRetransmits = reported.maxRetransmits
    /\ GetMaxPacketLifeTime = reported.maxRetransmitTime
    /\ GetBufferedAmount = reported.buffered

\* What C5 says of a channel after OnPeerConnectionClosed, but for the
\* event loop: readyState reads closed, the snapshot was taken (and is what
\* the caches hold when the forced close took it), the observer is
\* unregistered.
ForcedCloseReleased ==
  /\ GetReadyState = "closed"
  /\ ~jingle
  /\ nobserver = "none"
  /\ snapshots >= 1
  /\ (releasedBy = "pc" => cached = Snapshot(reported))

\* C5 (as claimed): after OnPeerConnectionClosed, in whatever native state
\* it was called, readyState reads closed, the attributes are snapshotted,
\* the observer is unregistered and the event loop is stopped.
C5_ForcedCloseStopsLoop ==
  pcClosed => (ForcedCloseReleased /\ stopped)

\* C5 (amended): as C5, but the event loop is stopped or, when the native
\* closed state change had released the binding before, the 'closed' event
\* that will stop it is still queued.
C5_ForcedCloseAmended ==
  pcClosed => (ForcedCloseReleased /\ (stopped \/ ClosedPending))

\* C5 witness: a forced close of an open channel took the snapshot and
\* stopped the loop.
C5_Witness ==
  pcClosed /\ releasedBy = "pc" /\ nstate = "open" /\ stopped

\* C6 (as claimed): notifications reach the listener in the order the
\* native channel produced the events.
C6_DeliveredFifo ==
  \A i, j \in DOMAIN delivered :
    i < j => delivered[i].seq < delivered[j].seq

\* C7: the 'closed' notification is the last notification of the channel.
C7_ClosedIsLast ==
  \A i \in DOMAIN delivered :
    (delivered[i].name = "onstatechange" /\ delivered[i].value = "closed")
      => i = Len(delivered)

\* C7 witness: 'closed' was delivered while an event that makes a callback
\* (a message, or the open state change) was still queued behind it.
C7_Witness ==
  /\ ClosedCount = 1
  /\ \E i \in DOMAIN loopQueue :
       loopQueue[i].kind = "msg" \/ loopQueue[i].state = "open"

\* C9 (as claimed): a native write failure makes Send fail for its caller.
C9_WriteFailurePropagated ==
  (lastSend.called /\ lastSend.handed /\ ~lastSend.nativeOk)
    => lastSend.thrown # "none"

\* C10 (as claimed): a payload that is neither text nor binary makes Send
\* fail with an invalid-argument error and hand nothing to the native
\* channel, in every channel state.
C10_BadPayloadAnyState ==
  (lastSend.called /\ lastSend.payload = "other")
    => (lastSend.thrown = "TypeError" /\ ~lastSend.handed)

\* C10 (amended): such a payload is never handed to the native channel; on
\* an open channel Send throws a TypeError, on any other the state check
\* comes first and no invalid-argument error is raised.
C10_BadPayloadAmended ==
  (lastSend.called /\ lastSend.payload = "other")
    => /\ ~lastSend.handed
       /\ ~lastSend.nativeOk
       /\ lastSend.open => lastSend.thrown = "TypeError"
       /\ ~lastSend.open => lastSend.thrown = "none"

\* C10 witness: Send of such a payload on an open channel threw.
C10_Witness ==
  /\ lastSend.called
  /\ lastSend.payload = "other"
  /\ lastSend.open
  /\ lastSend.thrown = "TypeError"

\* C8 (as claimed): in every interleaving of a teardown with an in-flight
\* Send, Close, attribute read or other teardown, nothing uses the native
\* binding after its release, the two contexts are never both inside the
\* teardown's writes, and the snapshot is taken at most once.
C8_TeardownSafe ==
  /\ ~uar
  /\ ~(pc.main = "cu_rel" /\ pc.sig = "cu_rel")
  /\ snapshots <= 1

\* The channel has reached Closed: a native closed state change or a forced
\* close released the binding, or a 'closed' notification was delivered.
ClosedReached == releasedBy # "none" \/ ClosedCount > 0

\* C11 (as claimed): closed is absorbing.  From a channel that has reached
\* Closed, readyState reads closed after every step, the binding is not
\* acquired again, a Send hands no payload to the native channel and a
\* Close() makes no call on the native channel.
C11_ClosedAbsorbing ==
  [][ClosedReached =>
       /\ GetReadyState' = "closed"
       /\ ~jingle => ~jingle'
       /\ lastSend' # lastSend => ~lastSend'.handed
       /\ closeCalls' # closeCalls => lastClose' = "skipped"]_vars

\* Every variable but binaryType and lastSet.
OtherVars ==
  <<nstate, nobserver, nattrs, nseq, nmsgs, obsQueue, phase, jingle, cached,
    loopQueue, stopped, stopCalls, delivered, reported, snapshots,
    releasedBy, lastSend, pcClosed, closeCalls, dataPool, handled, refCalls,
    unrefCalls, lastClose, pc, sstate, uar, crashed>>

\* C12: binaryType reads 'array-buffer' from construction until the first
\* successful set; a set with an invalid value raises a TypeError and
\* leaves binaryType unchanged; and a set changes neither what Send would
\* hand to the native channel nor any other attribute of the channel.
C12_BinaryTypeFrame ==
  [][/\ (phase' # "observer" /\ ~lastSet'.succeeded)
         => GetBinaryType' = "array-buffer"
     /\ lastSet' # lastSet =>
          /\ lastSet'.value \notin {"array-buffer", "blob"}
               => (lastSet'.thrown = "TypeError" /\ binaryType' = binaryType)
          /\ lastSet'.value \in {"array-buffer", "blob"}
               => (lastSet'.thrown = "none"
                   /\ GetBinaryType' = lastSet'.value)
          /\ \A p \in Payloads :
               SendOutcome(jingle', nstate', p) = SendOutcome(jingle, nstate, p)
          /\ UNCHANGED OtherVars]_vars

\* C12 witness: after a successful set to 'blob', a set with an invalid
\* value threw and binaryType still reads 'blob'.
C12_Witness ==
  /\ lastSet.called
  /\ lastSet.succeeded
  /\ lastSet.value = "bogus"
  /\ lastSet.thrown = "TypeError"
  /\ GetBinaryType = "blob"

\* How many of the events the observer holds, the channel's loop holds or
\* the loop has run carry the sequence number n.
Copies(n) ==
  LET all == handled \o loopQueue \o obsQueue
  IN  Cardinality({i \in DOMAIN all : all[i].seq = n})

\* C13: the hand-off loses and duplicates nothing.  Until the constructor
\* has finished every event the native channel produced is held exactly
\* once, by the observer or by the channel's loop; no event is ever held
\* twice; the observer receives nothing once the channel has registered
\* itself, and its queue is empty when it is deleted.
C13_HandOffExact ==
  /\ \A n \in 1..nseq : Copies(n) <= 1
  /\ phase \in {"observer", "registering"} => \A n \in 1..nseq : Copies(n) = 1
  /\ phase = "observer" => loopQueue = <<>>
  /\ phase # "observer" => nobserver # "observer"
  /\ phase \in {"live", "destroyed"} => obsQueue = <<>>

\* C13 witness: the constructor is replaying; an event the observer cached
\* is already in the channel's loop and a later one is still with the
\* observer.
C13_Witness ==
  /\ phase = "registering"
  /\ obsQueue # <<>>
  /\ loopQueue # <<>>
  /\ loopQueue[1].seq < obsQueue[1].seq

\* The notifications made for the event with sequence number n.
DeliveredFor(n) == {j \in DOMAIN delivered : delivered[j].seq = n}

\* C14 (as claimed): every message event the loop has run was handed to the
\* onmessage listener exactly once, as binary when the buffer's flag is set
\* and as text otherwise, with exactly the bytes of the received buffer.
C14_MessageExact ==
  \A i \in DOMAIN handled :
    handled[i].kind = "msg" =>
      /\ Cardinality(DeliveredFor(handled[i].seq)) = 1
      /\ \A j \in DeliveredFor(handled[i].seq) :
           /\ delivered[j].name = "onmessage"
           /\ delivered[j].value =
                (IF handled[i].binary THEN "binary" ELSE "text")
           /\ delivered[j].bytes = handled[i].data

\* C15: when the loop runs a state-change event, the listener gets one
\* onstatechange callback if the state is open or closed, carrying that
\* state, and none if it is connecting or closing; the loop is stopped if
\* and only if the state is closed; and the listener never gets 'open'
\* after 'closed'.
C15_StateCallbacks ==
  [][/\ (handled' # handled /\ handled'[Len(handled')].kind = "state") =>
          LET ev == handled'[Len(handled')] IN
          /\ ev.state \in {"open", "closed"} =>
               delivered' =
                 Append(delivered,
                        [name |-> "onstatechange", value |-> ev.state,
                         seq |-> ev.seq, bytes |-> <<>>])
          /\ ev.state \in {"connecting", "closing"} => delivered' = delivered
          /\ (stopCalls' # stopCalls) <=> (ev.state = "closed")
          /\ stopped' <=> (stopped \/ ev.state = "closed")
     /\ \A i, j \in DOMAIN delivered' :
          i < j => ~(/\ delivered'[i].value = "closed"
                     /\ delivered'[j].value = "open")]_vars

\* C15 witness: the loop has run a closing event without a callback, and
\* the listener got 'open' and then 'closed'.
C15_Witness ==
  /\ \E i \in DOMAIN handled :
       handled[i].kind = "state" /\ handled[i].state = "closing"
  /\ Len(delivered) = 2
  /\ delivered[1].value = "open"
  /\ delivered[2].value = "closed"
  /\ stopped

\* C16 (as claimed): the teardown snapshot is taken at most once; once the
\* binding is released no step of the constructed channel changes a cached
\* attribute, the registration or the binding; and an OnPeerConnectionClosed
\* that comes after the native channel went to closed makes no call on the
\* native channel and leaves the caches and the loop state unchanged.
C16_TeardownOnce ==
  [][/\ snapshots' <= 1
     /\ (phase = "live" /\ ~jingle) =>
          UNCHANGED <<cached, reported, snapshots, nobserver, jingle>>
     /\ (phase = "live" /\ nstate = "closed" /\ pcClosed' # pcClosed) =>
          UNCHANGED <<cached, reported, snapshots, nobserver, jingle,
                      stopped, stopCalls>>]_vars

\* C17 (as claimed): whenever 'closed' has been delivered to the listener
\* the binding is released, the observer is unregistered, the snapshot has
\* been taken and the getters serve it.
C17_ClosedMeansReleased ==
  ClosedCount > 0 =>
    /\ ~jingle
    /\ nobserver = "none"
    /\ snapshots = 1
    /\ GetLabel = reported.label
    /\ GetProtocol = reported.protocol

\* The references to the factory held on behalf of the channel.
FactoryRefs == refCalls - unrefCalls

\* C18: from the creation of the observer to the destruction of the
\* channel at least one reference to the factory is held, two while the
\* constructor replays (the channel's and the observer's); after the
\* destruction every Ref has had its Unref.
C18_FactoryRefHeld ==
  /\ phase # "destroyed" => FactoryRefs >= 1
  /\ phase = "registering" => FactoryRefs = 2
  /\ phase = "destroyed" => (FactoryRefs = 0 /\ refCalls = 2)

\* C18 witness: the channel was constructed and destroyed.
C18_Witness ==
  /\ phase = "destroyed"
  /\ refCalls = 2
  /\ unrefCalls = 2

\* C19 (as claimed, the part about Stop): Stop is called at most once per
\* channel.
C19_StopAtMostOnce == stopCalls <= 1

====
